---- MODULE Spec2Model ----
(***************************************************************************)
(* MitsiView Editor.py: the schema-driven codec for calibration tables.    *)
(*                                                                         *)
(* parse_xml turns the <table>/<scaling> elements of a definition file     *)
(* into a list of mappings, decode_bin reads every mapping's axes and body *)
(* out of the binary image, and edit_bin writes replacement axes and body  *)
(* typed at the terminal back into a copy of the image.                    *)
(*                                                                         *)
(* Python numbers are tagged tuples, so that values of different types     *)
(* compare unequal instead of being incomparable:                          *)
(*   <<"int", n>>               an int                                     *)
(*   <<"f32", b1, b2, b3, b4>>  a float that is exactly the IEEE-754       *)
(*                              single with the bits b1 b2 b3 b4 (sign and *)
(*                              exponent byte first)                       *)
(*   <<"huge">>                 a finite float beyond the single range     *)
(*   <<"round2", e, b1..b4>>    round(e(x), 2) for the float x above;      *)
(*                              float arithmetic is left uninterpreted     *)
(***************************************************************************)
EXTENDS Integers, Sequences, FiniteSets, TLC

VARIABLES
    pc,            \* "decode_bin", "decoded"; "edit_bin", "raised", "saved"
    binary_data,   \* the image read from the file: a sequence of bytes
    mappings,      \* parse_xml's result
    idx,           \* the position of the for-loop over mappings (1-based)
    decoded_data,  \* decode_bin's result: a function name -> decoded table
    log,           \* how each loop iteration ended, in order
    printed,       \* the error that the latest iteration printed or raised
    original_data, \* the file's content as first read (never assigned again)
    prev_data,     \* binary_data as it was before the latest iteration
    last_input,    \* of the latest input to edit_bin: see Summary
    modified_file  \* content of "modified_<file>", NotWritten until saved

vars == <<pc, binary_data, mappings, idx, decoded_data, log, printed, original_data,
          prev_data, last_input, modified_file>>

---------------------------------------------------------------------------
(* Bounds of the model *)

\* an axis has 0..MaxElems elements
MaxElems == 3
\* the image has BufLen bytes
BufLen == 24

---------------------------------------------------------------------------
(* Python values *)

\* Python's None where the other values are naturals: an address that a
\* mapping does not have, a numeric XML attribute that an element does not carry
None == -1
\* a textual XML attribute that the element does not carry
NoAttr == "(absent)"

IntVal(n) == <<"int", n>>
F32Val(b1, b2, b3, b4) == <<"f32", b1, b2, b3, b4>>
Huge == <<"huge">>
IsInt(v) == v[1] = "int"
IsF32(v) == v[1] = "f32"

Min(S) == CHOOSE m \in S : \A n \in S : m <= n

\* `if address_x`: None and 0 are both falsy
Truthy(address) == address # None /\ address # 0

---------------------------------------------------------------------------
(* struct: formats, unpack_from *)

\* format_char: "H" unless the storage type is uint8, int8 or float
StructFormat(storagetype) ==
    IF storagetype = "uint8" THEN "B"
    ELSE IF storagetype = "int8" THEN "b"
    ELSE IF storagetype = "float" THEN "f"
    ELSE "H"

\* struct.calcsize of one format character
calcsize(format_char) ==
    CASE format_char = "H" -> 2
      [] format_char = "B" -> 1
      [] format_char = "b" -> 1
      [] format_char = "f" -> 4

\* one element of the given format from its bytes, ">" big- or "<" little-endian
unpack_value(endian, format_char, b) ==
    CASE format_char = "H" ->
            IF endian = ">" THEN IntVal(256 * b[1] + b[2]) ELSE IntVal(b[1] + 256 * b[2])
      [] format_char = "B" -> IntVal(b[1])
      [] format_char = "b" -> IF b[1] >= 128 THEN IntVal(b[1] - 256) ELSE IntVal(b[1])
      [] format_char = "f" ->
            IF endian = ">" THEN F32Val(b[1], b[2], b[3], b[4])
            ELSE F32Val(b[4], b[3], b[2], b[1])

\* struct.unpack_from(f"{endian}{count}{format_char}", buffer, offset):
\* struct.error unless the buffer holds count elements from offset on
unpack_from(endian, count, format_char, buffer, offset) ==
    LET w == calcsize(format_char) IN
    IF Len(buffer) - offset < count * w
    THEN [error |-> TRUE, values |-> <<>>]
    ELSE [error |-> FALSE,
          values |-> [i \in 1..count |->
              unpack_value(endian, format_char,
                  SubSeq(buffer, offset + (i - 1) * w + 1, offset + i * w))]]

---------------------------------------------------------------------------
(* parse_xml *)

NoScaling == [present |-> FALSE, toexpr |-> NoAttr, storagetype |-> NoAttr,
              endian |-> NoAttr]

\* an axis child that the table does not have (Element.find gives None)
NoAxis == [present |-> FALSE, name |-> NoAttr, elements |-> None,
           address |-> None, scaling |-> NoAttr]

\* str.lower on the values the swapxy attribute takes in the model
Lower(s) == IF s = "True" THEN "true" ELSE s

\* root.find(".//scaling[@name=...]") and the dictionary built from it;
\* the same block is written out for the table, its X axis and its Y axis
FindScaling(root, scaling_name) ==
    IF scaling_name = NoAttr THEN NoScaling
    ELSE LET found == {i \in 1..Len(root.scalings) :
                          root.scalings[i].name = scaling_name} IN
         IF found = {} THEN NoScaling
         ELSE LET e == root.scalings[Min(found)] IN
              [present |-> TRUE,
               toexpr |-> e.toexpr,
               storagetype |-> e.storagetype,
               endian |-> IF e.endian = NoAttr THEN "big" ELSE e.endian]

AxisScaling(root, axis) ==
    IF axis.present THEN FindScaling(root, axis.scaling) ELSE NoScaling

\* the mapping dictionary of one <table> element; every key is always set
MappingOf(root, table) ==
    [name |-> IF table.name = NoAttr THEN "" ELSE table.name,
     address |-> IF table.address = None THEN 0 ELSE table.address,
     elements_x |-> IF table.x.present
                    THEN (IF table.x.elements = None THEN 0 ELSE table.x.elements)
                    ELSE 0,
     elements_y |-> IF table.y.present
                    THEN (IF table.y.elements = None THEN 0 ELSE table.y.elements)
                    ELSE 0,
     address_x |-> IF table.x.present THEN table.x.address ELSE None,
     address_y |-> IF table.y.present THEN table.y.address ELSE None,
     scaling_x |-> AxisScaling(root, table.x),
     scaling_y |-> AxisScaling(root, table.y),
     scaling |-> FindScaling(root, table.scaling),
     swapxy |-> Lower(IF table.swapxy = NoAttr THEN "false" ELSE table.swapxy)
                    = "true"]

\* an axis element seen as a <table> element of its own: it has no axis
\* children and no swapxy attribute
AxisAsTable(axis) ==
    [name |-> axis.name, address |-> axis.address, scaling |-> axis.scaling,
     swapxy |-> NoAttr, x |-> NoAxis, y |-> NoAxis]

\* root.findall(".//table"): every <table> element in document order, the
\* nested axis tables included, each after its parent
FindAllTables(root) ==
    LET Under(t) == <<t>>
            \o (IF t.x.present THEN <<AxisAsTable(t.x)>> ELSE <<>>)
            \o (IF t.y.present THEN <<AxisAsTable(t.y)>> ELSE <<>>)
        Flat[i \in 0..Len(root.tables)] ==
            IF i = 0 THEN <<>> ELSE Flat[i - 1] \o Under(root.tables[i])
    IN Flat[Len(root.tables)]

parse_xml(root) ==
    LET tables == FindAllTables(root) IN
    [i \in 1..Len(tables) |-> MappingOf(root, tables[i])]

---------------------------------------------------------------------------
(* apply_scaling *)

\* eval(scaling["toexpr"]) with x bound to value, for the expressions of the
\* model's scaling elements: the exception raised ("" for none) and the result
EvalToexpr(toexpr, value) ==
    CASE toexpr = NoAttr ->
            \* eval(None): TypeError
            [raised |-> "TypeError", result |-> value]
      [] toexpr = "x/0" ->
            [raised |-> "ZeroDivisionError", result |-> value]
      [] toexpr = "x*2" ->
            [raised |-> "",
             result |-> IF IsInt(value) THEN IntVal(value[2] * 2)
                        ELSE <<"x*2">> \o Tail(value)]
      [] toexpr = "x+1" ->
            [raised |-> "",
             result |-> IF IsInt(value) THEN IntVal(value[2] + 1)
                        ELSE <<"x+1">> \o Tail(value)]

\* round(result, 2): an int is its own rounding
Round2(result) ==
    IF IsInt(result) THEN result ELSE <<"round2">> \o result

apply_scaling(value, scaling) ==
    IF scaling.present
    THEN LET e == EvalToexpr(scaling.toexpr, value) IN
         IF e.raised = "" THEN Round2(e.result)
         ELSE IF e.raised = "ZeroDivisionError" THEN IntVal(0)
         ELSE value
    ELSE value

---------------------------------------------------------------------------
(* decode_bin *)

\* mapping.get(key, default)
Get(mapping, key, default) ==
    IF key \in DOMAIN mapping THEN mapping[key] ELSE default

\* ">" only for a table scaling whose endian is "big"; "<" also for a table
\* without scaling
Endian(table_scaling) ==
    IF table_scaling.present /\ table_scaling.endian = "big" THEN ">" ELSE "<"

\* "uint16" for a table without scaling
StorageType(table_scaling) ==
    IF table_scaling.present THEN table_scaling.storagetype ELSE "uint16"

\* the rows as they were read, the transposition left out
TransposeForgotten(table_data) == table_data

\* list(map(list, zip(*table_data))): as many rows as the shortest row of
\* table_data has elements, none at all for an empty table_data
Transpose(table_data) ==
    IF Len(table_data) = 0 THEN <<>>
    ELSE LET n == Min({Len(table_data[r]) : r \in 1..Len(table_data)}) IN
         [c \in 1..n |-> [r \in 1..Len(table_data) |-> table_data[r][c]]]

\* one axis: read and scaled when its address and its length are truthy
DecodeAxis(buffer, endian, format_char, address, elements, scaling) ==
    IF Truthy(address) /\ elements # 0
    THEN LET raw == unpack_from(endian, elements, format_char, buffer, address) IN
         [error |-> raw.error,
          values |-> [i \in 1..Len(raw.values) |->
                         apply_scaling(raw.values[i], scaling)]]
    ELSE [error |-> FALSE, values |-> <<>>]

\* the body of the try block for one mapping: the entry stored in
\* decoded_data, or an exception
DecodeTable(buffer, mapping) ==
    LET address == mapping.address
        table_scaling == Get(mapping, "scaling", NoScaling)
        swap_axes == Get(mapping, "swapxy", FALSE)
        endian == Endian(table_scaling)
        format_char == StructFormat(StorageType(table_scaling))
        elements_x == IF swap_axes THEN Get(mapping, "elements_y", 0)
                      ELSE Get(mapping, "elements_x", 0)
        elements_y == IF swap_axes THEN Get(mapping, "elements_x", 0)
                      ELSE Get(mapping, "elements_y", 0)
        address_x == IF swap_axes THEN Get(mapping, "address_y", None)
                     ELSE Get(mapping, "address_x", None)
        address_y == IF swap_axes THEN Get(mapping, "address_x", None)
                     ELSE Get(mapping, "address_y", None)
        scaling_x == IF swap_axes THEN Get(mapping, "scaling_y", table_scaling)
                     ELSE Get(mapping, "scaling_x", table_scaling)
        scaling_y == IF swap_axes THEN Get(mapping, "scaling_x", table_scaling)
                     ELSE Get(mapping, "scaling_y", table_scaling)
        x_axis == DecodeAxis(buffer, endian, format_char, address_x, elements_x,
                             scaling_x)
        y_axis == DecodeAxis(buffer, endian, format_char, address_y, elements_y,
                             scaling_y)
        row_size == elements_x * calcsize(format_char)
        row_raw == [row_idx \in 1..elements_y |->
                       unpack_from(endian, elements_x, format_char, buffer,
                                   address + (row_idx - 1) * row_size)]
        table_data == [row_idx \in 1..elements_y |->
                          [c \in 1..Len(row_raw[row_idx].values) |->
                              apply_scaling(row_raw[row_idx].values[c],
                                            table_scaling)]]
    IN  IF x_axis.error \/ y_axis.error
           \/ \E row_idx \in 1..elements_y : row_raw[row_idx].error
        THEN [raised |-> TRUE, x_axis |-> <<>>, y_axis |-> <<>>, data |-> <<>>]
        ELSE [raised |-> FALSE,
              x_axis |-> x_axis.values,
              y_axis |-> y_axis.values,
              data |-> IF swap_axes THEN Transpose(table_data) ELSE table_data]

\* decoded_data[mapping["name"]] = {...}: a later entry of the same name
\* replaces the earlier one
Store(data, name, entry) ==
    [n \in DOMAIN data \cup {name} |-> IF n = name THEN entry ELSE data[n]]

---------------------------------------------------------------------------
(* The inputs: definition files and images *)

\* the <scaling> elements of the definition file
Scalings == <<
    [name |-> "Load16", toexpr |-> "x*2", storagetype |-> "uint16", endian |-> "big"],
    [name |-> "Volt16", toexpr |-> "x+1", storagetype |-> "uint16", endian |-> "little"],
    [name |-> "Temp8", toexpr |-> "x/0", storagetype |-> "uint8", endian |-> NoAttr],
    [name |-> "Trim8", toexpr |-> NoAttr, storagetype |-> "int8", endian |-> "little"],
    [name |-> "AfrF", toexpr |-> "x*2", storagetype |-> "float", endian |-> "big"],
    [name |-> "MapF", toexpr |-> "x+1", storagetype |-> "float", endian |-> "little"] >>

\* the scaling attribute of a table: none, a name without element, an element
TableScalingAttrs ==
    {NoAttr, "Undefined"} \cup {Scalings[i].name : i \in 1..Len(Scalings)}
AxisScalingAttrs == {NoAttr, "Volt16"}
TableAddresses == {0, 4}
AxisAddresses == {0, 2, 20}
SwapAttrs == {NoAttr, "True"}

XAxes ==
    {NoAxis} \cup
    [present : {TRUE}, name : {"RPM"}, elements : 0..MaxElems,
     address : AxisAddresses, scaling : AxisScalingAttrs]
YAxes ==
    {NoAxis} \cup
    [present : {TRUE}, name : {"Load"}, elements : 0..MaxElems,
     address : AxisAddresses, scaling : AxisScalingAttrs]

Tables ==
    [name : {"Fuel"}, address : TableAddresses, scaling : TableScalingAttrs,
     swapxy : SwapAttrs, x : XAxes, y : YAxes]

\* a second top-level table: floats, both axes, the axes named as the first
\* table's (two tables over the same RPM and Load axes)
Spark ==
    [name |-> "Spark", address |-> 12, scaling |-> "MapF", swapxy |-> NoAttr,
     x |-> [present |-> TRUE, name |-> "RPM", elements |-> 1, address |-> 20,
            scaling |-> NoAttr],
     y |-> [present |-> TRUE, name |-> "Load", elements |-> 1, address |-> 4,
            scaling |-> NoAttr]]

\* a definition file with the top-level table t, and Spark after it when
\* count is 2
Document(t, count) ==
    [scalings |-> Scalings, tables |-> SubSeq(<<t, Spark>>, 1, count)]

\* the image: BufLen bytes, no two neighbours alike, both signs of int8
Image == [i \in 1..BufLen |-> ((i - 1) * 29 + 3) % 256]

NotWritten == [written |-> FALSE, content |-> <<>>]
NoInput == [shown |-> FALSE, body_fits |-> FALSE]

---------------------------------------------------------------------------
(* decode_bin as a state machine: one step per mapping *)

DecodeInit ==
    /\ pc = "decode_bin"
    /\ binary_data = Image
    /\ \E t \in Tables, count \in {1, 2} :
          mappings = parse_xml(Document(t, count))
    /\ idx = 1
    /\ decoded_data = <<>>
    /\ log = <<>>
    /\ printed = ""
    /\ original_data = binary_data
    /\ prev_data = binary_data
    /\ last_input = NoInput
    /\ modified_file = NotWritten

\* the loop has a mapping to work on, and the try block raises or does not
InLoop == pc = "decode_bin" /\ idx <= Len(mappings)
Raises == DecodeTable(binary_data, mappings[idx]).raised

\* the try block ran to its end: the entry is stored
DecodeStore ==
    /\ InLoop
    /\ ~Raises
    /\ LET d == DecodeTable(binary_data, mappings[idx]) IN
        decoded_data' = Store(decoded_data, mappings[idx].name,
               [x_axis |-> d.x_axis, y_axis |-> d.y_axis, data |-> d.data])
    /\ log' = Append(log, "decoded")
    /\ printed' = ""
    /\ idx' = idx + 1
    /\ UNCHANGED <<pc, binary_data, mappings, original_data, prev_data,
                   last_input, modified_file>>

\* a loop that the first failure would end: the rest of the list is left
DecodeErrorAborts ==
    /\ InLoop
    /\ Raises
    /\ log' = Append(log, "failed")
    /\ printed' = "Error decoding table"
    /\ idx' = Len(mappings) + 1
    /\ UNCHANGED <<pc, binary_data, mappings, decoded_data, original_data,
                   prev_data, last_input, modified_file>>

\* except Exception: the error is printed, the loop continues
DecodeError ==
    /\ InLoop
    /\ Raises
    /\ log' = Append(log, "failed")
    /\ printed' = "Error decoding table"
    /\ idx' = idx + 1
    /\ UNCHANGED <<pc, binary_data, mappings, decoded_data, original_data,
                   prev_data, last_input, modified_file>>

DecodeReturn ==
    /\ pc = "decode_bin"
    /\ idx > Len(mappings)
    /\ pc' = "decoded"
    /\ UNCHANGED <<binary_data, mappings, idx, decoded_data, log, printed,
                   original_data, prev_data, last_input, modified_file>>

DecodeNext == DecodeStore \/ DecodeError \/ DecodeReturn

DecodeSpec == DecodeInit /\ [][DecodeNext]_vars

---------------------------------------------------------------------------
(* struct.pack_into, as edit_bin calls it *)

Junk == <<"junk">>

\* the two messages of struct.error
NotAnInteger == "struct.error (required argument is not an integer)"
BufferTooSmall == "struct.error (pack_into requires a larger buffer)"

\* the single-precision float equal to the int n, |n| < 2^24
F32OfInt(n) ==
    IF n = 0 THEN F32Val(0, 0, 0, 0)
    ELSE LET a == IF n < 0 THEN 0 - n ELSE n
             e == CHOOSE k \in 0..23 : 2^k <= a /\ a < 2^(k + 1)
             E == 127 + e
             M == (a - 2^e) * 2^(23 - e)
         IN F32Val((IF n < 0 THEN 128 ELSE 0) + E \div 2,
                   (E % 2) * 128 + M \div 65536,
                   (M \div 256) % 256,
                   M % 256)

\* float(text) of the text that print shows for a value read from the image
\* (the image of the model holds no NaN, whose payload the text would lose)
FloatOfShown(v) == IF IsInt(v) THEN F32OfInt(v[2]) ELSE v

\* one float packed with one format character: the integer formats refuse a
\* float ("required argument is not an integer"), "f" refuses a float beyond
\* the single range
pack_value(endian, format_char, v) ==
    IF format_char # "f" THEN [raised |-> NotAnInteger, bytes |-> <<>>]
    ELSE IF v = Huge THEN [raised |-> "OverflowError", bytes |-> <<>>]
    ELSE [raised |-> "",
          bytes |-> IF endian = ">" THEN <<v[2], v[3], v[4], v[5]>>
                    ELSE <<v[5], v[4], v[3], v[2]>>]

\* buffer with the bytes from offset on replaced
WriteBytes(buffer, offset, bytes) ==
    [i \in 1..Len(buffer) |->
        IF i > offset /\ i <= offset + Len(bytes) THEN bytes[i - offset]
        ELSE buffer[i]]

\* struct.pack_into(f"{endian}{len(values)}{format_char}", buffer, offset,
\* *values): the offset is converted first (TypeError for None), then the
\* room is checked (struct.error), then the values are packed into the buffer
\* one by one, so that those before a refused value are already written
pack_into(endian, format_char, buffer, offset, values) ==
    LET w == calcsize(format_char)
        bad == {i \in 1..Len(values) :
                   pack_value(endian, format_char, values[i]).raised # ""}
        n == IF bad = {} THEN Len(values) ELSE Min(bad) - 1
        Packed[i \in 0..n] ==
            IF i = 0 THEN <<>>
            ELSE Packed[i - 1] \o pack_value(endian, format_char, values[i]).bytes
    IN  IF offset = None THEN [raised |-> "TypeError", buffer |-> buffer]
        ELSE IF Len(buffer) - offset < Len(values) * w
        THEN [raised |-> BufferTooSmall, buffer |-> buffer]
        ELSE [raised |-> IF bad = {} THEN ""
                         ELSE pack_value(endian, format_char,
                                         values[Min(bad)]).raised,
              buffer |-> WriteBytes(buffer, offset, Packed[n])]

---------------------------------------------------------------------------
(* edit_bin: one loop iteration *)

\* new_table_input.strip().splitlines(), each line split: the blank lines at
\* both ends are gone (input() returns one line of the terminal: the rows
\* after the first follow a line boundary that splitlines knows and the
\* terminal passes on, a form feed for one)
StripLines(rows) ==
    LET full == {i \in 1..Len(rows) : rows[i] # <<>>} IN
    IF full = {} THEN <<>>
    ELSE SubSeq(rows, Min(full), CHOOSE j \in full : \A k \in full : k <= j)

\* the reads that show the existing axes and rows, outside the try block:
\* TRUE when one of them raises struct.error
DisplayRaises(buffer, mapping) ==
    LET address == mapping.address
        elements_x == Get(mapping, "elements_x", 0)
        elements_y == Get(mapping, "elements_y", 0)
        address_x == Get(mapping, "address_x", None)
        address_y == Get(mapping, "address_y", None)
        scaling == Get(mapping, "scaling", NoScaling)
        endian == Endian(scaling)
        format_char == StructFormat(StorageType(scaling))
    IN  \/ /\ Truthy(address_x) /\ elements_x # 0
           /\ unpack_from(endian, elements_x, format_char, buffer, address_x).error
        \/ /\ Truthy(address_y) /\ elements_y # 0
           /\ unpack_from(endian, elements_y, format_char, buffer, address_y).error
        \/ \E row \in 0..(elements_y - 1) :
              unpack_from(endian, elements_x, format_char, buffer,
                          address + row * elements_x * calcsize(format_char)).error

\* the checks of the try block, in order: the ValueError raised, "" for none
Validate(mapping, input) ==
    LET elements_x == Get(mapping, "elements_x", 0)
        elements_y == Get(mapping, "elements_y", 0)
        rows == StripLines(input.body)
        HasJunk(tokens) == \E i \in 1..Len(tokens) : tokens[i] = Junk
        BadRow(r) == HasJunk(rows[r]) \/ Len(rows[r]) # elements_x
        bad_rows == {r \in 1..Len(rows) : BadRow(r)}
    IN  IF HasJunk(input.x) THEN "could not convert string to float"
        ELSE IF Len(input.x) # elements_x THEN "X Axis length mismatch"
        ELSE IF HasJunk(input.y) THEN "could not convert string to float"
        ELSE IF Len(input.y) # elements_y THEN "Y Axis length mismatch"
        ELSE IF bad_rows # {}
        THEN (IF HasJunk(rows[Min(bad_rows)])
              THEN "could not convert string to float"
              ELSE "Row length mismatch")
        ELSE IF Len(rows) # elements_y THEN "Number of rows mismatch"
        ELSE ""

\* the writes with every row one row further down
WriteTableRowBelow(buffer, mapping, input) ==
    LET address == mapping.address
        elements_x == Get(mapping, "elements_x", 0)
        address_x == Get(mapping, "address_x", None)
        address_y == Get(mapping, "address_y", None)
        scaling == Get(mapping, "scaling", NoScaling)
        endian == Endian(scaling)
        format_char == StructFormat(StorageType(scaling))
        rows == StripLines(input.body)
        wx == pack_into(endian, format_char, buffer, address_x, input.x)
        wy == pack_into(endian, format_char, wx.buffer, address_y, input.y)
        Rows[i \in 0..Len(rows)] ==
            IF i = 0 THEN [raised |-> "", buffer |-> wy.buffer]
            ELSE IF Rows[i - 1].raised # "" THEN Rows[i - 1]
            ELSE pack_into(endian, format_char, Rows[i - 1].buffer,
                           address + i * elements_x * calcsize(format_char),
                           rows[i])
    IN  IF wx.raised # "" THEN wx
        ELSE IF wy.raised # "" THEN wy
        ELSE Rows[Len(rows)]

\* the three writes of the try block: X axis, Y axis, then the rows; the
\* first exception ends them, what was written before it stays written
WriteTable(buffer, mapping, input) ==
    LET address == mapping.address
        elements_x == Get(mapping, "elements_x", 0)
        address_x == Get(mapping, "address_x", None)
        address_y == Get(mapping, "address_y", None)
        scaling == Get(mapping, "scaling", NoScaling)
        endian == Endian(scaling)
        format_char == StructFormat(StorageType(scaling))
        rows == StripLines(input.body)
        wx == pack_into(endian, format_char, buffer, address_x, input.x)
        wy == pack_into(endian, format_char, wx.buffer, address_y, input.y)
        Rows[i \in 0..Len(rows)] ==
            IF i = 0 THEN [raised |-> "", buffer |-> wy.buffer]
            ELSE IF Rows[i - 1].raised # "" THEN Rows[i - 1]
            ELSE pack_into(endian, format_char, Rows[i - 1].buffer,
                           address + (i - 1) * elements_x * calcsize(format_char),
                           rows[i])
    IN  IF wx.raised # "" THEN wx
        ELSE IF wy.raised # "" THEN wy
        ELSE Rows[Len(rows)]

\* one iteration of the loop of edit_bin for the typed input: the error it
\* prints or raises ("" when the table is written), and the buffer it leaves
EditTable(buffer, mapping, input) ==
    IF DisplayRaises(buffer, mapping)
    THEN [outcome |-> "struct.error showing the table", buffer |-> buffer]
    ELSE LET v == Validate(mapping, input) IN
         IF v # "" THEN [outcome |-> "Error: " \o v, buffer |-> buffer]
         ELSE LET w == WriteTable(buffer, mapping, input) IN
              [outcome |-> IF w.raised = "" THEN ""
                           ELSE w.raised \o " writing the table",
               buffer |-> w.buffer]

---------------------------------------------------------------------------
(* edit_bin as a state machine: one step per mapping, then the save *)

\* what the user types: numbers that are exact single-precision floats,
\* each list with bytes of its own, so that every write shows in the image
TypedX(n) == [i \in 1..n |-> F32Val(65, 16, i, 1)]
TypedY(n) == [i \in 1..n |-> F32Val(65, 32, i, 2)]
TypedBody(rows, cols) ==
    [r \in 1..rows |-> [c \in 1..cols |-> F32Val(66, r, c, 3)]]

Near(n) == {k \in {n - 1, n, n + 1} : k >= 0}
ReplaceLast(tokens, token) ==
    [i \in 1..Len(tokens) |-> IF i = Len(tokens) THEN token ELSE tokens[i]]
ReplaceLastOfLast(rows, token) ==
    [r \in 1..Len(rows) |->
        IF r = Len(rows) THEN ReplaceLast(rows[r], token) ELSE rows[r]]

\* lists whose lengths are the table's or off by one, with numbers only
ShapedInputs(mapping) ==
    {[x |-> TypedX(a), y |-> TypedY(b), body |-> TypedBody(r, c)] :
        a \in Near(mapping.elements_x), b \in Near(mapping.elements_y),
        r \in Near(mapping.elements_y), c \in Near(mapping.elements_x)}

\* lists of the table's lengths in which the last token is no number, or a
\* number too large for a single-precision float, or the last row is short
FlawedInputs(mapping) ==
    LET fit == [x |-> TypedX(mapping.elements_x),
                y |-> TypedY(mapping.elements_y),
                body |-> TypedBody(mapping.elements_y, mapping.elements_x)]
    IN  UNION {{[fit EXCEPT !.x = ReplaceLast(@, t)],
                [fit EXCEPT !.y = ReplaceLast(@, t)],
                [fit EXCEPT !.body = ReplaceLastOfLast(@, t)]} :
               t \in {Junk, Huge}}
        \cup {[fit EXCEPT !.body =
                  [r \in 1..Len(@) |->
                      IF r = Len(@) THEN SubSeq(@[r], 1, Len(@[r]) - 1)
                      ELSE @[r]]]}

\* the user types back what the table holds: the raw X axis, Y axis and rows
\* read from the image with the table's format
ShownInput(buffer, mapping) ==
    LET endian == Endian(mapping.scaling)
        format_char == StructFormat(StorageType(mapping.scaling))
        w == calcsize(format_char)
        Read(address, count) ==
            IF address = None THEN <<>>
            ELSE LET raw == unpack_from(endian, count, format_char, buffer,
                                        address).values IN
                 [i \in 1..Len(raw) |-> FloatOfShown(raw[i])]
    IN  [x |-> Read(mapping.address_x, mapping.elements_x),
         y |-> Read(mapping.address_y, mapping.elements_y),
         body |-> [r \in 1..mapping.elements_y |->
                      Read(mapping.address + (r - 1) * mapping.elements_x * w,
                           mapping.elements_x)]]

Inputs(buffer, mapping) ==
    ShapedInputs(mapping) \cup FlawedInputs(mapping)
        \cup {ShownInput(buffer, mapping)}

\* what the properties have to know of the latest input
Summary(buffer, mapping, input) ==
    [shown |-> input = ShownInput(buffer, mapping),
     body_fits |->
        /\ Len(input.body) = mapping.elements_y
        /\ \A r \in 1..Len(input.body) :
              /\ Len(input.body[r]) = mapping.elements_x
              /\ \A c \in 1..Len(input.body[r]) :
                    input.body[r][c] \notin {Junk, Huge}]

\* the top-level tables of the edit runs: as Tables, with fewer choices
EditMaxElems == 2
EditXAxes ==
    {NoAxis} \cup
    [present : {TRUE}, name : {"RPM"}, elements : 0..EditMaxElems,
     address : {0, 16, 28}, scaling : {NoAttr}]
EditYAxes ==
    {NoAxis} \cup
    [present : {TRUE}, name : {"Load"}, elements : 0..EditMaxElems,
     address : {8}, scaling : {NoAttr}]
EditTables ==
    [name : {"Fuel"}, address : TableAddresses,
     scaling : {NoAttr, "Load16", "AfrF", "MapF"},
     swapxy : {NoAttr}, x : EditXAxes, y : EditYAxes]
EditInit ==
    /\ pc = "edit_bin"
    /\ binary_data = Image
    /\ \E t \in EditTables, count \in {1, 2} :
          mappings = parse_xml(Document(t, count))
    /\ idx = 1
    /\ decoded_data = <<>>
    /\ log = <<>>
    /\ printed = ""
    /\ original_data = binary_data
    /\ prev_data = binary_data
    /\ last_input = NoInput
    /\ modified_file = NotWritten

EditStep(input, outcomes, ending, next_pc) ==
    LET e == EditTable(binary_data, mappings[idx], input) IN
    /\ e.outcome \in outcomes
    /\ binary_data' = e.buffer
    /\ prev_data' = binary_data
    /\ log' = Append(log, ending)
    /\ printed' = e.outcome
    /\ last_input' = Summary(binary_data, mappings[idx], input)
    /\ idx' = idx + 1
    /\ pc' = next_pc
    /\ UNCHANGED <<mappings, decoded_data, original_data, modified_file>>

ConvertError == "Error: could not convert string to float"
MismatchErrors ==
    {"Error: X Axis length mismatch", "Error: Y Axis length mismatch",
     "Error: Row length mismatch", "Error: Number of rows mismatch"}
WriteErrors ==
    {"TypeError writing the table", NotAnInteger \o " writing the table",
     BufferTooSmall \o " writing the table",
     "OverflowError writing the table"}
ShowError == "struct.error showing the table"

\* the table is written
EditWrite ==
    /\ pc = "edit_bin" /\ idx <= Len(mappings)
    /\ \E input \in Inputs(binary_data, mappings[idx]) :
          EditStep(input, {""}, "written", "edit_bin")

\* a length check raises ValueError; except ValueError: the error is
\* printed, the loop continues
EditMismatch ==
    /\ pc = "edit_bin" /\ idx <= Len(mappings)
    /\ \E input \in Inputs(binary_data, mappings[idx]) :
          EditStep(input, MismatchErrors, "mismatch", "edit_bin")

\* float() raises ValueError: printed as well, the loop continues
EditNoNumber ==
    /\ pc = "edit_bin" /\ idx <= Len(mappings)
    /\ \E input \in Inputs(binary_data, mappings[idx]) :
          EditStep(input, {ConvertError}, "no number", "edit_bin")

\* an exception that is no ValueError leaves edit_bin: nothing is saved
EditRaise ==
    /\ pc = "edit_bin" /\ idx <= Len(mappings)
    /\ \E input \in Inputs(binary_data, mappings[idx]) :
          EditStep(input, WriteErrors \cup {ShowError}, "raised", "raised")

\* after the loop: the buffer is written to "modified_<file>"
EditSave ==
    /\ pc = "edit_bin" /\ idx > Len(mappings)
    /\ modified_file' = [written |-> TRUE, content |-> binary_data]
    /\ pc' = "saved"
    /\ UNCHANGED <<binary_data, mappings, idx, decoded_data, log, printed,
                   original_data, prev_data, last_input>>

EditNext == EditWrite \/ EditMismatch \/ EditNoNumber \/ EditRaise \/ EditSave

EditSpec == EditInit /\ [][EditNext]_vars

---------------------------------------------------------------------------
(* Properties of decode_bin *)

\* the latest loop iteration stored the entry of mappings[idx - 1]
JustDecoded ==
    /\ pc \in {"decode_bin", "decoded"}
    /\ idx > 1
    /\ log[idx - 1] = "decoded"
LastMapping == mappings[idx - 1]
LastEntry == decoded_data[LastMapping.name]

Width(m) == calcsize(StructFormat(StorageType(m.scaling)))
\* the element of table m's storage type at a byte offset of the image
RawAt(m, offset) ==
    unpack_value(Endian(m.scaling), StructFormat(StorageType(m.scaling)),
                 SubSeq(binary_data, offset + 1, offset + Width(m)))
Byte(offset) == binary_data[offset + 1]

\* C1: a table without scaling rule (and without swap) is decoded as 16-bit
\* unsigned big-endian: data[r][c] is 256 * the byte at
\* address + 2*(r*elements_x + c) plus the byte after it (r, c from 0)
C1_DefaultsBigEndian ==
    (JustDecoded /\ ~LastMapping.scaling.present /\ ~LastMapping.swapxy) =>
        LET m == LastMapping IN
        /\ Len(LastEntry.data) = m.elements_y
        /\ \A r \in 1..m.elements_y :
            /\ Len(LastEntry.data[r]) = m.elements_x
            /\ \A c \in 1..m.elements_x :
                LET o == m.address + 2 * ((r - 1) * m.elements_x + (c - 1)) IN
                LastEntry.data[r][c] = IntVal(256 * Byte(o) + Byte(o + 1))

\* C7: an axis without scaling of its own is scaled by the body's rule:
\* every element of the decoded axis is the body's rule applied to the raw
\* axis element (tables without swap)
C7_AxisInheritsBodyScaling ==
    (JustDecoded /\ LastMapping.scaling.present /\ ~LastMapping.swapxy) =>
        LET m == LastMapping IN
        /\ ~m.scaling_x.present =>
              \A i \in 1..Len(LastEntry.x_axis) :
                  LastEntry.x_axis[i] =
                      apply_scaling(RawAt(m, m.address_x + (i - 1) * Width(m)),
                                    m.scaling)
        /\ ~m.scaling_y.present =>
              \A i \in 1..Len(LastEntry.y_axis) :
                  LastEntry.y_axis[i] =
                      apply_scaling(RawAt(m, m.address_y + (i - 1) * Width(m)),
                                    m.scaling)

\* the address and the length that decode uses for the X and for the Y axis
\* of the result: the declared ones, exchanged under swapxy
ResultAddressX(m) == IF m.swapxy THEN m.address_y ELSE m.address_x
ResultAddressY(m) == IF m.swapxy THEN m.address_x ELSE m.address_y
ResultElementsX(m) == IF m.swapxy THEN m.elements_y ELSE m.elements_x
ResultElementsY(m) == IF m.swapxy THEN m.elements_x ELSE m.elements_y

\* C8: in every decoded table, x_axis has elements_x elements when an X
\* address is present, whatever the offset (0 included), and is empty when
\* none is present; the same for y_axis
C8_AxisLengths ==
    JustDecoded =>
        LET m == LastMapping IN
        /\ ResultAddressX(m) # None =>
              Len(LastEntry.x_axis) = ResultElementsX(m)
        /\ ResultAddressX(m) = None => LastEntry.x_axis = <<>>
        /\ ResultAddressY(m) # None =>
              Len(LastEntry.y_axis) = ResultElementsY(m)
        /\ ResultAddressY(m) = None => LastEntry.y_axis = <<>>

\* the entry that decode_bin stores for a decoded table
EntryOf(d) == [x_axis |-> d.x_axis, y_axis |-> d.y_axis, data |-> d.data]

\* C4: a table whose decoding raises is left out of the result, every other
\* table has the entry that decoding it alone gives (the last one of a name
\* where tables share it), and the loop goes on to the end of the list:
\* until it returns it has a mapping to store or to report, or none left
C4_FailedTableOmitted ==
    /\ pc \in {"decode_bin", "decoded"} =>
        LET Alone(i) == DecodeTable(binary_data, mappings[i])
            good == {i \in 1..(idx - 1) : ~Alone(i).raised}
        IN  /\ Len(log) = idx - 1
            /\ \A i \in 1..(idx - 1) :
                  log[i] = IF i \in good THEN "decoded" ELSE "failed"
            /\ DOMAIN decoded_data = {mappings[i].name : i \in good}
            /\ \A i \in good :
                  (\A j \in good : mappings[j].name = mappings[i].name => j <= i)
                      => decoded_data[mappings[i].name] = EntryOf(Alone(i))
    /\ pc = "decode_bin" =>
          \/ InLoop /\ (Raises \/ ~Raises)
          \/ idx = Len(mappings) + 1
    /\ pc = "decoded" => idx = Len(mappings) + 1

\* a table fails, the tables after it are decoded, one of them with data
C4_Witness ==
    /\ pc = "decoded"
    /\ \E i \in 1..Len(log) :
          /\ log[i] = "failed"
          /\ \E j \in (i + 1)..Len(log) :
                /\ log[j] = "decoded"
                /\ decoded_data[mappings[j].name].data # <<>>

\* the element that the swap law names for row r, column c of the result
SwapBodyAt(m, r, c) ==
    apply_scaling(
        RawAt(m, m.address + ((c - 1) * m.elements_y + (r - 1)) * Width(m)),
        m.scaling)
\* an axis of the result that was read holds the other declared axis
SwapAxesExchanged(m, entry) ==
    /\ entry.x_axis # <<>> =>
          entry.x_axis = [i \in 1..m.elements_y |->
              apply_scaling(RawAt(m, m.address_y + (i - 1) * Width(m)),
                            m.scaling_y)]
    /\ entry.y_axis # <<>> =>
          entry.y_axis = [i \in 1..m.elements_x |->
              apply_scaling(RawAt(m, m.address_x + (i - 1) * Width(m)),
                            m.scaling_x)]
SwapBodyTransposed(m, entry) ==
    /\ Len(entry.data) = m.elements_y
    /\ \A r \in 1..m.elements_y :
          /\ Len(entry.data[r]) = m.elements_x
          /\ \A c \in 1..m.elements_x : entry.data[r][c] = SwapBodyAt(m, r, c)

---------------------------------------------------------------------------
(* Properties of edit_bin *)

JustEdited == pc \in {"edit_bin", "raised", "saved"} /\ idx > 1

\* the byte offsets that a table of the definition file covers: its X axis,
\* its Y axis and its body
Range(address, count, w) ==
    IF address = None THEN {} ELSE address..(address + count * w - 1)
TableRanges(m) ==
    Range(m.address_x, m.elements_x, Width(m))
        \cup Range(m.address_y, m.elements_y, Width(m))
        \cup Range(m.address, m.elements_y * m.elements_x, Width(m))

\* the tables whose input passed the checks of the try block
PassedChecks ==
    {i \in 1..Len(log) :
        \/ log[i] = "written"
        \/ log[i] = "raised" /\ printed \in WriteErrors}

\* C2: typing back the raw X axis, Y axis and rows that a table holds
\* (a table without swap, both axes stored, at least one row and one
\* column) is accepted and written, and leaves every byte of the buffer as
\* it was
C2_RoundTrip ==
    (/\ JustEdited /\ last_input.shown
     /\ ~LastMapping.swapxy
     /\ LastMapping.address_x # None /\ LastMapping.address_y # None
     /\ LastMapping.elements_x >= 1 /\ LastMapping.elements_y >= 1) =>
        /\ log[idx - 1] = "written"
        /\ binary_data = prev_data

\* C3: when a length check rejects the input for a table, the mismatch is
\* printed, the step changes no byte, the later tables get their turn and
\* the buffer is saved at the end: the run does not end in an exception
C3_MismatchSkipsTable ==
    /\ (JustEdited /\ log[idx - 1] = "mismatch") =>
          /\ printed \in MismatchErrors
          /\ binary_data = prev_data
    /\ (\E i \in 1..Len(log) : log[i] = "mismatch") =>
          /\ pc # "raised"
          /\ pc = "saved" =>
                /\ Len(log) = Len(mappings)
                /\ modified_file = [written |-> TRUE, content |-> binary_data]

\* C5: no failure while a table (here one with both axes stored) is written
\* ends the run: it is caught, the table is skipped, the loop goes on and
\* the buffer is saved
C5_WriteFailureCaught ==
    (/\ JustEdited
     /\ LastMapping.address_x # None /\ LastMapping.address_y # None
     /\ printed \in WriteErrors) =>
        pc # "raised"

\* C6: a table without axis addresses is written when the typed rows have
\* its shape, whatever is typed for the X and the Y axis
C6_NoAxisNoLengthCheck ==
    (/\ JustEdited
     /\ LastMapping.address_x = None /\ LastMapping.address_y = None
     /\ last_input.body_fits) =>
        log[idx - 1] = "written"

\* C10: the buffer keeps its length, and a byte outside the X, Y and body
\* ranges of the tables whose input passed the checks keeps its value; what
\* is saved is the buffer
C10_WritesStayInRanges ==
    pc \in {"edit_bin", "raised", "saved"} =>
        /\ Len(binary_data) = Len(original_data)
        /\ \A p \in 0..(Len(original_data) - 1) :
              (\A i \in PassedChecks : p \notin TableRanges(mappings[i]))
                  => binary_data[p + 1] = original_data[p + 1]
        /\ modified_file.written =>
              /\ pc = "saved"
              /\ modified_file.content = binary_data

\* two tables are written, the saved image differs from the original and
\* still holds bytes of it
C10_Witness ==
    /\ pc = "saved"
    /\ Cardinality({i \in 1..Len(log) : log[i] = "written"}) = 2
    /\ modified_file.content # original_data
    /\ \E p \in 1..Len(original_data) :
          /\ modified_file.content[p] = original_data[p]
          /\ \A i \in PassedChecks : (p - 1) \notin TableRanges(mappings[i])

====
